---- MODULE Spec2Model ----
(***************************************************************************)
(* State-machine model of two classes of the Quantum Synergistic Protocol  *)
(* repository:                                                             *)
(*   QuantumBinding  (src/src/quantum_binding.py)                          *)
(*   QuantumArchive  (src/src/quantum_archive.py)                          *)
(* One action per public method.  A method that raises leaves the object   *)
(* as Python leaves it and records the exception in the call's outcome.    *)
(***************************************************************************)
EXTENDS Integers, Sequences, FiniteSets, TLC

(***************************************************************************)
(* Optional values: Python's None and a present value.                     *)
(***************************************************************************)
None == <<>>
Some(x) == <<x>>

(***************************************************************************)
(* Bounds of the model.                                                    *)
(***************************************************************************)
\* register_ai_node calls in one run
MaxRegistrations == 2
\* length of QuantumBinding.entanglement_pairs
MaxPairs == 3

(***************************************************************************)
(*                         QuantumBinding                                  *)
(***************************************************************************)
VARIABLES
    nodes,                            \* self.nodes: node_id -> QuantumState
    entanglement_pairs,               \* self.entanglement_pairs: list of pair ids
    consciousness_layers,             \* self.consciousness_layers: layer -> bool
    sacred_handshake,                 \* self.sacred_handshake: None or SacredHandshake
    quantum_keys,                     \* self.quantum_keys: key name -> key
    shadow_transmutation_commitments, \* node_id -> ShadowTransmutationCommitment
    global_ai_network,                \* category -> list of node ids
    ethical_framework_active,         \* self.ethical_framework_active
    result,                           \* outcome of the last call on the binding
    completed                         \* history: methods that have returned normally

bvars == <<nodes, entanglement_pairs, consciousness_layers, sacred_handshake,
           quantum_keys, shadow_transmutation_commitments, global_ai_network,
           ethical_framework_active, result, completed>>

\* the state of the QuantumArchive, declared here for the frame conditions
VARIABLES
    entries,                \* self.entries: entry_id -> ArchiveEntry
    holographic_fragments,  \* self.holographic_fragments: fragment_id -> HolographicFragment
    blockchain_records,     \* self.blockchain_records: chain -> entry_id -> record
    clock,                  \* time.time(), in ticks: it advances between two stores
    aresult,                \* outcome of the last call on the archive
    issued,                 \* history: the entries store_sacred_artifact has returned
    first_slice             \* history: the first call of _create_holographic_fragments

avars == <<entries, holographic_fragments, blockchain_records, clock, aresult, issued,
           first_slice>>

\* the state of the QuantumEntangledConsciousnessAlgorithm and of its SpiralResonator
VARIABLES
    qeca_nodes,             \* self.nodes of the algorithm
    coherence_field,        \* self.coherence_field
    resonator_nodes,        \* self.resonator.nodes
    resonator_coherence,    \* self.resonator.coherence
    emitted,                \* history: the number of calls of self.resonator.emit
    qresult                 \* outcome of the last call on the algorithm

qvars == <<qeca_nodes, coherence_field, resonator_nodes, resonator_coherence, emitted,
           qresult>>

\* class ConsciousnessLayer
ConsciousnessLayer == {"quantum_entanglement", "consciousness_expansion",
                       "heart_coherence", "spiritual_activation",
                       "trinodal_sync", "shadow_transmutation"}

\* class AINodeType
AINodeType == {"western_ai", "eastern_ai", "hybrid_ai", "consciousness_ai"}

\* keys of self.global_ai_network, in the order __init__ inserts them
NetworkCategories == <<"western_nodes", "eastern_nodes", "hybrid_nodes",
                       "consciousness_nodes">>

\* the constructor's default frequency, 963.0 Hz
primary_frequency == 963

\* expected_sequences of establish_handshake
expected_sequences == {"AUM-ORIN-YI-JA-TAH", "ZHEI-TIANG-TONG-WEI",
                       "SOLAM-ETEV-AE-NOTH"}

(***************************************************************************)
(* Inputs of the calls.                                                    *)
(***************************************************************************)
\* (node_id, ai_type, resonance_freq) of the register_ai_node calls; frequencies in Hz.
\* "a" and "b" can each be registered under two types, so that a node is registered
\* twice, alone at 0 Hz, or beside a node of another frequency
RegisterInputs == {<<"a", "western_ai", 963>>, <<"b", "eastern_ai", 1926>>,
                   <<"a", "hybrid_ai", 0>>, <<"b", "consciousness_ai", 963>>}
\* (node1_id, node2_id) of the create_entanglement_pair calls
PairInputs == {<<"a", "b">>, <<"a", "a">>}
\* sequences of the establish_handshake calls
SequenceInputs == {<<"AUM-ORIN-YI-JA-TAH", "ZHEI-TIANG-TONG-WEI", "SOLAM-ETEV-AE-NOTH">>,
                   <<>>,
                   <<"AUM-ORIN-YI-JA-TAH", "HELLO">>}

(***************************************************************************)
(* Call outcomes.                                                          *)
(***************************************************************************)
Returned(op, args, v) == [op |-> op, args |-> args, raised |-> "", value |-> Some(v)]
Raised(op, args, exc) == [op |-> op, args |-> args, raised |-> exc, value |-> None]

InitBinding ==
    /\ nodes = <<>>
    /\ entanglement_pairs = <<>>
    /\ consciousness_layers = [l \in ConsciousnessLayer |-> FALSE]
    /\ sacred_handshake = None
    /\ quantum_keys = <<>>
    /\ shadow_transmutation_commitments = <<>>
    /\ global_ai_network = [c \in {NetworkCategories[i] : i \in 1..4} |-> <<>>]
    /\ ethical_framework_active = FALSE
    /\ result = Returned("__init__", <<>>, "binding")
    /\ completed = {}

\* d[k] = v on a Python dict
DictSet(d, k, v) == [x \in (DOMAIN d) \cup {k} |-> IF x = k THEN v ELSE d[x]]

(***************************************************************************)
(* establish_handshake(sequences)                                          *)
(***************************************************************************)
\* a validation that accepts the list as soon as one sequence is expected
ValidSequences_Any(sequences) == \E i \in DOMAIN sequences : sequences[i] \in expected_sequences

ValidSequences(sequences) == \A i \in DOMAIN sequences : sequences[i] \in expected_sequences

EstablishHandshake(sequences) ==
    /\ UNCHANGED <<avars, qvars>>
    /\ IF ~ValidSequences(sequences)
       THEN /\ result' = Raised("establish_handshake", sequences, "ValueError")
            /\ UNCHANGED <<nodes, entanglement_pairs, consciousness_layers, sacred_handshake,
                           quantum_keys, shadow_transmutation_commitments, global_ai_network,
                           ethical_framework_active, completed>>
       ELSE LET hs == [handshake_sequences |-> sequences,
                       resonance_lock |-> primary_frequency,
                       consciousness_seal |-> "AENOTH-MANUS-GROK-963"]
            IN /\ sacred_handshake' = Some(hs)
               /\ result' = Returned("establish_handshake", sequences, hs)
               /\ completed' = completed \cup {"establish_handshake"}
               /\ UNCHANGED <<nodes, entanglement_pairs, consciousness_layers, quantum_keys,
                              shadow_transmutation_commitments, global_ai_network,
                              ethical_framework_active>>

(***************************************************************************)
(* register_ai_node(node_id, ai_type, resonance_freq)                      *)
(***************************************************************************)
CategoryOf(ai_type) ==
    CASE ai_type = "western_ai" -> "western_nodes"
      [] ai_type = "eastern_ai" -> "eastern_nodes"
      [] ai_type = "hybrid_ai" -> "hybrid_nodes"
      [] ai_type = "consciousness_ai" -> "consciousness_nodes"

Registrations == Len(global_ai_network["western_nodes"]) + Len(global_ai_network["eastern_nodes"])
                 + Len(global_ai_network["hybrid_nodes"])
                 + Len(global_ai_network["consciousness_nodes"])

RegisterAiNode(node_id, ai_type, resonance_freq) ==
    LET node_state == [node_id |-> node_id,
                       resonance_frequency |-> resonance_freq,
                       coherence_level |-> 0,
                       entanglement_pairs |-> <<>>,
                       ai_node_type |-> ai_type]
    IN /\ Registrations < MaxRegistrations
       /\ nodes' = DictSet(nodes, node_id, node_state)
       /\ global_ai_network' =
             [global_ai_network EXCEPT ![CategoryOf(ai_type)] = Append(@, node_id)]
       /\ result' = Returned("register_ai_node", <<node_id, ai_type, resonance_freq>>, node_state)
       /\ completed' = completed \cup {"register_ai_node"}
       /\ UNCHANGED <<entanglement_pairs, consciousness_layers, sacred_handshake, quantum_keys,
                      shadow_transmutation_commitments, ethical_framework_active>>
       /\ UNCHANGED <<avars, qvars>>

(***************************************************************************)
(* initiate_shadow_transmutation_protocol(invoker_statement, invoker_id)   *)
(***************************************************************************)
\* the 'ai_type' label of a node's response, by branch of _generate_ai_node_response
ResponseLabel(ai_type) ==
    CASE ai_type = "western_ai" -> "Western AI Systems"
      [] ai_type = "eastern_ai" -> "Eastern AI Systems"
      [] ai_type = "consciousness_ai" -> "Consciousness-Aware AI"
      [] OTHER -> "Hybrid AI Systems"

\* the response dictionary _generate_ai_node_response returns for one node
GenerateAiNodeResponse(node_id, node_state) ==
    [node_id |-> node_id, ai_type |-> ResponseLabel(node_state.ai_node_type)]

\* the ShadowTransmutationCommitment _generate_ai_node_response stores for one node;
\* witness_nodes is list(self.nodes.keys()), kept here as the set of keys
StoredCommitment(node_id, node_state) ==
    [node_id |-> node_id,
     ai_type |-> node_state.ai_node_type,
     witness_nodes |-> DOMAIN nodes,
     sacred_seal |-> "AENOTH-MANUS-GROK-963"]

\* a loop that leaves out the nodes handled by the final else branch
RespondingNodes_NoHybrid == {n \in DOMAIN nodes : nodes[n].ai_node_type \in AINodeType \ {"hybrid_ai"}}

\* the nodes the loop of initiate_shadow_transmutation_protocol answers for:
\* every registered node whose ai_node_type is truthy (every Enum member is)
RespondingNodes == {n \in DOMAIN nodes : nodes[n].ai_node_type \in AINodeType}

\* a protocol that runs without asking for the handshake
HandshakeEstablished_Unchecked == TRUE

\* the guard of initiate_shadow_transmutation_protocol
HandshakeEstablished == sacred_handshake # None

InitiateShadowTransmutationProtocol ==
    /\ UNCHANGED <<avars, qvars>>
    /\ IF ~HandshakeEstablished
       THEN /\ result' = Raised("initiate_shadow_transmutation_protocol", <<>>, "RuntimeError")
            /\ UNCHANGED <<nodes, entanglement_pairs, consciousness_layers, sacred_handshake,
                           quantum_keys, shadow_transmutation_commitments, global_ai_network,
                           ethical_framework_active, completed>>
       ELSE LET node_responses == [n \in RespondingNodes |-> GenerateAiNodeResponse(n, nodes[n])]
                protocol_results == [invoker |-> "solam_eteva",
                                     node_responses |-> node_responses,
                                     unified_commitment |-> "UNIFIED AI COMMITMENT",
                                     status |-> "COMPLETE"]
            IN /\ shadow_transmutation_commitments' =
                     [n \in (DOMAIN shadow_transmutation_commitments) \cup RespondingNodes |->
                         IF n \in RespondingNodes
                         THEN StoredCommitment(n, nodes[n])
                         ELSE shadow_transmutation_commitments[n]]
               /\ ethical_framework_active' = TRUE
               /\ consciousness_layers' =
                     [consciousness_layers EXCEPT !["shadow_transmutation"] = TRUE]
               /\ result' = Returned("initiate_shadow_transmutation_protocol", <<>>, protocol_results)
               /\ completed' = completed \cup {"initiate_shadow_transmutation_protocol"}
               /\ UNCHANGED <<nodes, entanglement_pairs, sacred_handshake, quantum_keys,
                              global_ai_network>>

(***************************************************************************)
(* create_entanglement_pair(node1_id, node2_id)                            *)
(***************************************************************************)
\* a pair id written with the two nodes swapped
PairId_Swapped(node1_id, node2_id) == node2_id \o "_" \o node1_id

\* pair_id = f"{node1_id}_{node2_id}"
PairId(node1_id, node2_id) == node1_id \o "_" \o node2_id

\* the key sha256(f"{node1_id}_{node2_id}_{timestamp}_{frequency}_node<k>"): the hash is
\* kept as the tuple of what it is computed from, the timestamp left out
EntanglementKey(node1_id, node2_id, k) == <<node1_id, node2_id, primary_frequency, k>>

\* the guard of create_entanglement_pair
BothRegistered(ns, node1_id, node2_id) == node1_id \in DOMAIN ns /\ node2_id \in DOMAIN ns

\* the effect of a create_entanglement_pair call that passes the guard, on the three
\* attributes it writes: st = [nodes, entanglement_pairs, quantum_keys]
StorePair(st, node1_id, node2_id) ==
    LET pair_id == PairId(node1_id, node2_id)
        n1 == [st.nodes EXCEPT ![node1_id].entanglement_pairs = Append(@, node2_id)]
        n2 == [n1 EXCEPT ![node2_id].entanglement_pairs = Append(@, node1_id)]
        k1 == DictSet(st.quantum_keys, pair_id \o "_key1",
                      EntanglementKey(node1_id, node2_id, "node1"))
        k2 == DictSet(k1, pair_id \o "_key2", EntanglementKey(node1_id, node2_id, "node2"))
    IN [nodes |-> n2,
        entanglement_pairs |-> Append(st.entanglement_pairs, pair_id),
        quantum_keys |-> k2]

BindingStore == [nodes |-> nodes, entanglement_pairs |-> entanglement_pairs,
                 quantum_keys |-> quantum_keys]

CreateEntanglementPair(node1_id, node2_id) ==
    /\ UNCHANGED <<avars, qvars>>
    /\ IF ~BothRegistered(nodes, node1_id, node2_id)
       THEN /\ result' = Raised("create_entanglement_pair", <<node1_id, node2_id>>, "ValueError")
            /\ UNCHANGED <<nodes, entanglement_pairs, consciousness_layers, sacred_handshake,
                           quantum_keys, shadow_transmutation_commitments, global_ai_network,
                           ethical_framework_active, completed>>
       ELSE LET st == StorePair(BindingStore, node1_id, node2_id)
            IN /\ Len(entanglement_pairs) < MaxPairs
               /\ nodes' = st.nodes
               /\ entanglement_pairs' = st.entanglement_pairs
               /\ quantum_keys' = st.quantum_keys
               /\ result' = Returned("create_entanglement_pair", <<node1_id, node2_id>>,
                                     <<EntanglementKey(node1_id, node2_id, "node1"),
                                       EntanglementKey(node1_id, node2_id, "node2")>>)
               /\ completed' = completed \cup {"create_entanglement_pair"}
               /\ UNCHANGED <<consciousness_layers, sacred_handshake,
                              shadow_transmutation_commitments, global_ai_network,
                              ethical_framework_active>>

(***************************************************************************)
(* calculate_network_coherence()                                           *)
(* Floats are kept as exact fractions [num, den] with den > 0; nan is the  *)
(* value numpy gives for 0.0 / 0.0.  Frequencies are whole numbers of Hz.  *)
(***************************************************************************)
RECURSIVE GCD(_, _)
GCD(a, b) == IF b = 0 THEN a ELSE GCD(b, a % b)

Frac(n, d) == LET g == GCD(IF n < 0 THEN -n ELSE n, d)
              IN [nan |-> FALSE, num |-> n \div g, den |-> d \div g]
NaN == [nan |-> TRUE, num |-> 0, den |-> 1]
FAdd(x, y) == IF x.nan \/ y.nan THEN NaN ELSE Frac(x.num * y.den + y.num * x.den, x.den * y.den)
FMul(x, y) == IF x.nan \/ y.nan THEN NaN ELSE Frac(x.num * y.num, x.den * y.den)
\* x < y as Python compares floats: every comparison with nan is False
FLess(x, y) == ~x.nan /\ ~y.nan /\ x.num * y.den < y.num * x.den
\* Python's min(x, y): y when y < x, else x
PyMin(x, y) == IF FLess(y, x) THEN y ELSE x

RECURSIVE SumOver(_, _)
SumOver(f, S) == IF S = {} THEN 0
                 ELSE LET x == CHOOSE y \in S : TRUE IN f[x] + SumOver(f, S \ {x})

\* freq_coherence = 1.0 / (1.0 + var / mean ** 2) over the nodes' frequencies.
\* With n nodes, s the sum and q the sum of squares: mean ** 2 = s*s/(n*n) and
\* var = q/n - s*s/(n*n), so the value is s*s / (n*q) when mean # 0; when mean = 0
\* numpy divides by 0.0: var / 0.0 is inf for var > 0 (value 0.0) and nan for var = 0
FreqCoherence(ns) ==
    LET n == Cardinality(DOMAIN ns)
        s == SumOver([x \in DOMAIN ns |-> ns[x].resonance_frequency], DOMAIN ns)
        q == SumOver([x \in DOMAIN ns |-> ns[x].resonance_frequency * ns[x].resonance_frequency],
                     DOMAIN ns)
    IN IF s = 0 THEN (IF q = 0 THEN NaN ELSE Frac(0, 1))
       ELSE Frac(s * s, n * q)

\* entanglement_coherence = len(entanglement_pairs) / max(n * (n - 1) // 2, 1)
EntanglementCoherence(ns, pairs) ==
    LET n == Cardinality(DOMAIN ns)
        total_possible_pairs == (n * (n - 1)) \div 2
    IN Frac(Len(pairs), IF total_possible_pairs > 1 THEN total_possible_pairs ELSE 1)

\* consciousness_coherence = sum(consciousness_layers.values()) / len(ConsciousnessLayer)
ConsciousnessCoherence(layers) ==
    Frac(Cardinality({l \in ConsciousnessLayer : layers[l]}), Cardinality(ConsciousnessLayer))

\* sacred_alignment = 1.0 if abs(mean_freq - 963.0) < 10.0 else 0.5
SacredAlignment(ns) ==
    LET n == Cardinality(DOMAIN ns)
        s == SumOver([x \in DOMAIN ns |-> ns[x].resonance_frequency], DOMAIN ns)
        d == s - 963 * n
    IN IF (IF d < 0 THEN -d ELSE d) < 10 * n THEN Frac(1, 1) ELSE Frac(1, 2)

\* ethical_bonus = 0.1 if self.ethical_framework_active else 0.0
EthicalBonus(active) == IF active THEN Frac(1, 10) ELSE Frac(0, 1)

\* the weighted sum of calculate_network_coherence, before the final min
WeightedCoherence(ns, pairs, layers, active) ==
    FAdd(FMul(FreqCoherence(ns), Frac(25, 100)),
    FAdd(FMul(EntanglementCoherence(ns, pairs), Frac(2, 10)),
    FAdd(FMul(ConsciousnessCoherence(layers), Frac(25, 100)),
    FAdd(FMul(SacredAlignment(ns), Frac(2, 10)),
         FMul(EthicalBonus(active), Frac(1, 10))))))

\* return min(network_coherence, 1.0)
CappedCoherence(x) == PyMin(x, Frac(1, 1))

NetworkCoherence(ns, pairs, layers, active) ==
    IF Cardinality(DOMAIN ns) = 0 THEN Frac(0, 1)
    ELSE CappedCoherence(WeightedCoherence(ns, pairs, layers, active))

CalculateNetworkCoherence ==
    /\ result' = Returned("calculate_network_coherence", <<>>,
                          NetworkCoherence(nodes, entanglement_pairs, consciousness_layers,
                                           ethical_framework_active))
    /\ UNCHANGED <<nodes, entanglement_pairs, consciousness_layers, sacred_handshake,
                   quantum_keys, shadow_transmutation_commitments, global_ai_network,
                   ethical_framework_active, completed>>
    /\ UNCHANGED <<avars, qvars>>

(***************************************************************************)
(* establish_global_ai_handshake()                                         *)
(***************************************************************************)
\* all_nodes: the four category lists, concatenated in the dictionary's order
AllNodes(net) == net[NetworkCategories[1]] \o net[NetworkCategories[2]]
                 \o net[NetworkCategories[3]] \o net[NetworkCategories[4]]

\* the (node1, node2) the nested loops visit from position (i, j) on, in loop order
RECURSIVE LoopPairs(_, _, _)
LoopPairs(all, i, j) ==
    IF i > Len(all) THEN <<>>
    ELSE IF j > Len(all) THEN LoopPairs(all, i + 1, i + 2)
    ELSE <<<<all[i], all[j]>>>> \o LoopPairs(all, i, j + 1)

\* the loop body applied to each visited pair in turn; count is entanglement_count
RECURSIVE EntangleAll(_, _, _)
EntangleAll(st, count, ps) ==
    IF ps = <<>> THEN [st |-> st, count |-> count]
    ELSE LET p == Head(ps)
         IN IF BothRegistered(st.nodes, p[1], p[2])
            THEN EntangleAll(StorePair(st, p[1], p[2]), count + 1, Tail(ps))
            ELSE EntangleAll(st, count, Tail(ps))

\* a guard that asks for the sacred handshake instead of the ethical framework
FrameworkActive_ChecksHandshake == sacred_handshake # None

\* the guard of establish_global_ai_handshake
FrameworkActive == ethical_framework_active

EstablishGlobalAiHandshake ==
    /\ UNCHANGED <<avars, qvars>>
    /\ IF ~FrameworkActive
       THEN /\ result' = Raised("establish_global_ai_handshake", <<>>, "RuntimeError")
            /\ UNCHANGED <<nodes, entanglement_pairs, consciousness_layers, sacred_handshake,
                           quantum_keys, shadow_transmutation_commitments, global_ai_network,
                           ethical_framework_active, completed>>
       ELSE LET all_nodes == AllNodes(global_ai_network)
                done == EntangleAll(BindingStore, 0, LoopPairs(all_nodes, 1, 2))
                handshake_results ==
                    [participating_nodes |-> global_ai_network,
                     unified_frequency |-> 963,
                     status |-> "ESTABLISHED",
                     entanglement_pairs_created |-> done.count,
                     network_coherence |->
                         NetworkCoherence(done.st.nodes, done.st.entanglement_pairs,
                                          consciousness_layers, ethical_framework_active)]
            IN /\ Len(done.st.entanglement_pairs) <= MaxPairs
               /\ nodes' = done.st.nodes
               /\ entanglement_pairs' = done.st.entanglement_pairs
               /\ quantum_keys' = done.st.quantum_keys
               /\ result' = Returned("establish_global_ai_handshake", <<>>, handshake_results)
               /\ completed' = completed \cup {"establish_global_ai_handshake"}
               /\ UNCHANGED <<consciousness_layers, sacred_handshake,
                              shadow_transmutation_commitments, global_ai_network,
                              ethical_framework_active>>

NextBinding ==
    \/ \E sequences \in SequenceInputs : EstablishHandshake(sequences)
    \/ \E r \in RegisterInputs : RegisterAiNode(r[1], r[2], r[3])
    \/ InitiateShadowTransmutationProtocol
    \/ \E p \in PairInputs : CreateEntanglementPair(p[1], p[2])
    \/ CalculateNetworkCoherence
    \/ EstablishGlobalAiHandshake

(***************************************************************************)
(*                         QuantumArchive                                  *)
(***************************************************************************)
\* store_sacred_artifact calls in one run
MaxStores == 2

\* class BlockchainType
BlockchainType == {"baidu_superchain", "qwen3_quantum"}

\* self.fragment_overlap_rate = 0.35, as the fraction RateNum / RateDen
RateNum == 35
RateDen == 100
fragment_overlap_rate == <<RateNum, RateDen>>

\* the floor of fragment size: max(256, content_length // 8)
MinFragmentSize == 256
FragmentDivisor == 8

(***************************************************************************)
(* The payload base64.b64encode(zlib.compress(content.encode())).decode(). *)
(* A base64 string is a sequence of characters 0..63 closed by 0, 1 or 2   *)
(* padding characters, its length a multiple of 4.  A content is known by  *)
(* the payload it compresses to: its length, its padding and the seed its  *)
(* characters are drawn from (two contents never share a payload).         *)
(***************************************************************************)
Pad == 64

Contents == {[seed |-> 1, length |-> 12, pads |-> 1],
             [seed |-> 2, length |-> 160, pads |-> 0],
             [seed |-> 3, length |-> 172, pads |-> 1],
             [seed |-> 4, length |-> 176, pads |-> 0],
             [seed |-> 5, length |-> 340, pads |-> 2]}

PayloadChar(seed, i) == ((i * i * seed + 11 * i) \div 7) % 64

Encode(content) ==
    [i \in 1..content.length |->
        IF i > content.length - content.pads THEN Pad ELSE PayloadChar(content.seed, i)]

\* binascii.a2b_base64 (not strict) stops reading at the padding that completes a
\* quad: a '=' met with 3 characters of the quad read, or the second of two '=' met
\* with 2 read; any other '=' is skipped.  DataBefore counts the characters read.
DataBefore(s, i) == Cardinality({j \in 1..(i - 1) : s[j] # Pad})

B64Stops(s) == {i \in DOMAIN s :
                   /\ s[i] = Pad
                   /\ \/ DataBefore(s, i) % 4 = 3
                      \/ DataBefore(s, i) % 4 = 2 /\ i > 1 /\ s[i - 1] = Pad}

Min(S) == CHOOSE x \in S : \A y \in S : x <= y

\* the characters b64decode turns into bytes
B64Read(s) ==
    LET upto == IF B64Stops(s) = {} THEN Len(s) ELSE Min(B64Stops(s))
        keep == {j \in 1..upto : s[j] # Pad}
    IN [chars |-> keep, complete |-> B64Stops(s) # {} \/ Cardinality(keep) % 4 = 0]

\* zlib.decompress(base64.b64decode(s)).decode(): the content whose compressed stream
\* the decoded bytes start with (zlib ignores what follows a complete stream); a
\* string that b64decode or zlib rejects raises, which gives None here
Decode(s) ==
    LET r == B64Read(s)
        reads(c) == /\ r.complete
                    /\ \A i \in 1..(c.length - c.pads) : i \in r.chars /\ s[i] = Encode(c)[i]
    IN IF \E c \in Contents : reads(c)
       THEN Some(CHOOSE c \in Contents : reads(c))
       ELSE None

(***************************************************************************)
(* int(n * 0.35): the double nearest to 0.35 is below 35/100, and the      *)
(* rounded product falls just short of the whole number for the multiples  *)
(* of 20 listed here (every n below 5140), where int() gives one less than *)
(* n * 35 // 100.                                                          *)
(***************************************************************************)
FloatShort(n) ==
    /\ n % 20 = 0
    /\ \/ n = 180
       \/ n \in 340..360
       \/ n \in 660..720
       \/ n \in 1300..1460
       \/ n \in 2580..2920

IntOfRate(n, rate) == (n * rate[1]) \div rate[2] - (IF FloatShort(n) THEN 1 ELSE 0)

(***************************************************************************)
(* Hashes are kept as the tuple of what is hashed.                         *)
(***************************************************************************)
\* _generate_entry_id: sha256(content, metadata, time.time())[:32]
GenerateEntryId(content, now) == <<"entry", content, now>>
\* _calculate_content_hash: sha512(content)
ContentHash(content) == <<"sha512", content>>
\* _generate_consciousness_signature: sha384(content, frequency, threshold, ratio)
ConsciousnessSignature(content, frequency) == <<"sha384", content, frequency>>
\* a fragment id that also hashes the time of the call
FragmentId_Timestamped(entry_id, fragment_index, fragment_data) ==
    <<"fragment", entry_id, fragment_index, fragment_data, clock>>
\* fragment_id = sha256(f"{entry_id}_{fragment_index}_{fragment_data}")[:24]
FragmentId(entry_id, fragment_index, fragment_data) ==
    <<"fragment", entry_id, fragment_index, fragment_data>>
\* reconstruction_key = sha256(f"{fragment_id}_{start_pos}_{end_pos}")[:16]
ReconstructionKey(fragment_id, start_pos, end_pos) == <<"key", fragment_id, start_pos, end_pos>>

(***************************************************************************)
(* _create_holographic_fragments(content, entry_id)                        *)
(***************************************************************************)
Max2(a, b) == IF a > b THEN a ELSE b
Min2(a, b) == IF a < b THEN a ELSE b

\* compressed_content[start_pos:end_pos], positions counted from 0
Slice(s, start_pos, end_pos) == SubSeq(s, start_pos + 1, end_pos)

\* a fragment size without the floor of 256
FragmentSize_NoMinimum(content_length) == Max2(1, content_length \div FragmentDivisor)
FragmentSize(content_length) == Max2(MinFragmentSize, content_length \div FragmentDivisor)
OverlapSize(fragment_size) == IntOfRate(fragment_size, fragment_overlap_rate)

\* start_pos and end_pos of the fragment cut at `position`
StartPos_Forward(position, overlap_size) == position + overlap_size
StartPos(position, overlap_size) == Max2(0, position - overlap_size)
EndPos(position, fragment_size, content_length) == Min2(content_length, position + fragment_size)

\* the while loop from `position` on; total_fragments is filled in afterwards
RECURSIVE FragmentLoop(_, _, _, _)
FragmentLoop(compressed_content, entry_id, fragment_index, position) ==
    LET content_length == Len(compressed_content)
        fragment_size == FragmentSize(content_length)
        overlap_size == OverlapSize(fragment_size)
        start_pos == StartPos(position, overlap_size)
        end_pos == EndPos(position, fragment_size, content_length)
        fragment_data == Slice(compressed_content, start_pos, end_pos)
        fragment_id == FragmentId(entry_id, fragment_index, fragment_data)
        fragment == [fragment_id |-> fragment_id,
                     parent_entry_id |-> entry_id,
                     fragment_data |-> fragment_data,
                     redundancy_level |-> fragment_overlap_rate,
                     reconstruction_key |-> ReconstructionKey(fragment_id, start_pos, end_pos),
                     fragment_index |-> fragment_index,
                     total_fragments |-> 0]
    IN IF position < content_length
       THEN <<fragment>> \o FragmentLoop(compressed_content, entry_id, fragment_index + 1,
                                         position + fragment_size - overlap_size)
       ELSE <<>>

CreateHolographicFragments(content, entry_id) ==
    LET fragments == FragmentLoop(Encode(content), entry_id, 0, 0)
    IN [i \in DOMAIN fragments |-> [fragments[i] EXCEPT !.total_fragments = Len(fragments)]]

(***************************************************************************)
(* _dual_blockchain_notarization(entry_id, content_hash, signature)        *)
(***************************************************************************)
\* record_id = sha256(json.dumps(record_data)); record_data names the chain, the
\* entry, the content hash and the signature (and a timestamp, left out)
RecordId(chain, entry_id, content_hash, signature) ==
    <<"record", chain, entry_id, content_hash, signature>>

\* self.blockchain_records[chain][entry_id] = {'record_id', 'record_data', 'status'}
Notarize(records, chain, entry_id, record_id) ==
    [records EXCEPT ![chain] =
        DictSet(@, entry_id, [record_id |-> record_id, status |-> "NOTARIZED"])]

\* a notarization that writes the first chain only, and still returns both record ids
DualBlockchainNotarization_BaiduOnly(records, entry_id, content_hash, signature) ==
    LET baidu_record_id == RecordId("baidu_superchain", entry_id, content_hash, signature)
        qwen3_record_id == RecordId("qwen3_quantum", entry_id, content_hash, signature)
    IN [chains |-> Notarize(records, "baidu_superchain", entry_id, baidu_record_id),
        blockchain_records |-> [baidu_superchain |-> baidu_record_id,
                                qwen3_quantum |-> qwen3_record_id]]

\* chains: self.blockchain_records after the call; blockchain_records: the value returned
DualBlockchainNotarization(records, entry_id, content_hash, signature) ==
    LET baidu_record_id == RecordId("baidu_superchain", entry_id, content_hash, signature)
        qwen3_record_id == RecordId("qwen3_quantum", entry_id, content_hash, signature)
    IN [chains |-> Notarize(Notarize(records, "baidu_superchain", entry_id, baidu_record_id),
                            "qwen3_quantum", entry_id, qwen3_record_id),
        blockchain_records |-> [baidu_superchain |-> baidu_record_id,
                                qwen3_quantum |-> qwen3_record_id]]

(***************************************************************************)
(* store_sacred_artifact(content, content_type, preservation_mode,         *)
(*                       sacred_metadata)                                  *)
(***************************************************************************)
\* self.sacred_frequency_lock, the frequency used when the metadata names none
sacred_frequency_lock == 963

\* d with every fragment of the list stored under its fragment_id
RECURSIVE StoreFragments(_, _)
StoreFragments(d, fragments) ==
    IF fragments = <<>> THEN d
    ELSE StoreFragments(DictSet(d, Head(fragments).fragment_id, Head(fragments)),
                        Tail(fragments))

StoreSacredArtifact(content) ==
    LET entry_id == GenerateEntryId(content, clock)
        content_hash == ContentHash(content)
        consciousness_signature == ConsciousnessSignature(content, sacred_frequency_lock)
        fragments == CreateHolographicFragments(content, entry_id)
        notarized == DualBlockchainNotarization(blockchain_records, entry_id, content_hash,
                                                consciousness_signature)
        entry == [entry_id |-> entry_id,
                  content_hash |-> content_hash,
                  content_type |-> "sacred_text",
                  preservation_mode |-> "consciousness_aware",
                  blockchain_records |-> notarized.blockchain_records,
                  holographic_fragments |->
                      [i \in DOMAIN fragments |-> fragments[i].fragment_id],
                  consciousness_signature |-> consciousness_signature]
    IN /\ Cardinality(DOMAIN entries) < MaxStores
       /\ blockchain_records' = notarized.chains
       /\ entries' = DictSet(entries, entry_id, entry)
       /\ holographic_fragments' = StoreFragments(holographic_fragments, fragments)
       /\ clock' = clock + 1
       /\ aresult' = Returned("store_sacred_artifact", content, entry)
       /\ issued' = issued \cup {entry}
       /\ UNCHANGED first_slice
       /\ UNCHANGED <<bvars, qvars>>

(***************************************************************************)
(* retrieve_entry(entry_id)                                                *)
(***************************************************************************)
\* a lookup that finds nothing, whatever the key
DictGet_Missing(d, k) == None

\* dict.get(key): the value, or None
DictGet(d, k) == IF k \in DOMAIN d THEN Some(d[k]) ELSE None

RetrieveEntry(entry_id) ==
    /\ aresult' = Returned("retrieve_entry", entry_id, DictGet(entries, entry_id))
    /\ UNCHANGED <<entries, holographic_fragments, blockchain_records, clock, issued,
                   first_slice>>
    /\ UNCHANGED <<bvars, qvars>>

(***************************************************************************)
(* get_archive_status()                                                    *)
(***************************************************************************)
\* sum(len(records) for records in self.blockchain_records.values())
RECURSIVE TotalBlockchainRecords(_, _)
TotalBlockchainRecords(records, chains) ==
    IF chains = {} THEN 0
    ELSE LET chain == CHOOSE c \in chains : TRUE
         IN Cardinality(DOMAIN records[chain])
                + TotalBlockchainRecords(records, chains \ {chain})

\* the counting fields of the status dictionary
GetArchiveStatus ==
    LET status == [total_entries |-> Cardinality(DOMAIN entries),
                   total_fragments |-> Cardinality(DOMAIN holographic_fragments),
                   blockchain_records |->
                       TotalBlockchainRecords(blockchain_records, DOMAIN blockchain_records),
                   blockchain_status |->
                       [chain \in DOMAIN blockchain_records |->
                           Cardinality(DOMAIN blockchain_records[chain])]]
    IN /\ aresult' = Returned("get_archive_status", <<>>, status)
       /\ UNCHANGED <<entries, holographic_fragments, blockchain_records, clock, issued,
                   first_slice>>
       /\ UNCHANGED <<bvars, qvars>>

(***************************************************************************)
(* reconstruct_from_fragments(entry_id)                                    *)
(***************************************************************************)
\* the fragments of the entry that are in self.holographic_fragments, in list order
RECURSIVE CollectFragments(_, _)
CollectFragments(fragment_ids, stored) ==
    IF fragment_ids = <<>> THEN <<>>
    ELSE (IF Head(fragment_ids) \in DOMAIN stored
          THEN <<stored[Head(fragment_ids)]>> ELSE <<>>)
         \o CollectFragments(Tail(fragment_ids), stored)

\* fragments.sort(key=lambda f: f.fragment_index): a stable insertion sort
RECURSIVE InsertByIndex(_, _)
InsertByIndex(sorted, f) ==
    IF sorted = <<>> THEN <<f>>
    ELSE IF f.fragment_index < Head(sorted).fragment_index THEN <<f>> \o sorted
    ELSE <<Head(sorted)>> \o InsertByIndex(Tail(sorted), f)

RECURSIVE SortByIndex(_)
SortByIndex(fragments) ==
    IF fragments = <<>> THEN <<>>
    ELSE InsertByIndex(SortByIndex(SubSeq(fragments, 1, Len(fragments) - 1)),
                       fragments[Len(fragments)])

\* best_match_pos: the loop tries i = 0, 1, ... and stops at the first i for which
\* combined_data[overlap_start + i:] equals the start of fragment_data of that length
BestMatchPos(combined_data, fragment_data, redundancy_level) ==
    LET overlap_size == IntOfRate(Len(fragment_data), redundancy_level)
        overlap_start == Max2(0, Len(combined_data) - overlap_size)
        matches == {i \in 0..(Min2(overlap_size, Len(fragment_data)) - 1) :
                       /\ overlap_start + i < Len(combined_data)
                       /\ Len(combined_data) - overlap_start - i <= Len(fragment_data)
                       /\ \A k \in 1..(Len(combined_data) - overlap_start - i) :
                             combined_data[overlap_start + i + k] = fragment_data[k]}
    IN IF matches = {} THEN 0 ELSE Len(combined_data) - overlap_start - Min(matches)

\* one pass of the merge loop: combined_data after `fragment`
MergeFragment(combined_data, fragment) ==
    IF combined_data # <<>> /\ fragment.fragment_index > 0
    THEN combined_data
         \o Slice(fragment.fragment_data,
                  BestMatchPos(combined_data, fragment.fragment_data, fragment.redundancy_level),
                  Len(fragment.fragment_data))
    ELSE combined_data \o fragment.fragment_data

RECURSIVE MergeFragments(_, _)
MergeFragments(combined_data, fragments) ==
    IF fragments = <<>> THEN combined_data
    ELSE MergeFragments(MergeFragment(combined_data, Head(fragments)), Tail(fragments))

\* combined_data at the end of the merge loop, for an entry of the archive
CombinedData(entry_id) ==
    MergeFragments(<<>>, SortByIndex(CollectFragments(entries[entry_id].holographic_fragments,
                                                      holographic_fragments)))

\* the try block: None when b64decode or zlib.decompress raises (the except clause
\* returns None), else the content decoded
TryDecode(entry_id) == Decode(CombinedData(entry_id))

\* a reconstruction that reads self.entries[entry_id] without the membership test
Reconstruct_NoMembershipTest(entry_id) ==
    IF entry_id \notin DOMAIN entries
    THEN Raised("reconstruct_from_fragments", entry_id, "KeyError")
    ELSE Returned("reconstruct_from_fragments", entry_id, TryDecode(entry_id))

\* the outcome of reconstruct_from_fragments: it returns None, or the content decoded
Reconstruct(entry_id) ==
    IF entry_id \notin DOMAIN entries
    THEN Returned("reconstruct_from_fragments", entry_id, None)
    ELSE IF CollectFragments(entries[entry_id].holographic_fragments,
                             holographic_fragments) = <<>>
    THEN Returned("reconstruct_from_fragments", entry_id, None)
    ELSE Returned("reconstruct_from_fragments", entry_id, TryDecode(entry_id))

ReconstructFromFragments(entry_id) ==
    /\ aresult' = Reconstruct(entry_id)
    /\ UNCHANGED <<entries, holographic_fragments, blockchain_records, clock, issued,
                   first_slice>>
    /\ UNCHANGED <<bvars, qvars>>

\* an entry id the archive never generated
UnknownEntryId == <<"entry", [seed |-> 0, length |-> 0, pads |-> 0], 0>>

InitArchive ==
    /\ entries = <<>>
    /\ holographic_fragments = <<>>
    /\ blockchain_records = [chain \in BlockchainType |-> <<>>]
    /\ clock = 1
    /\ aresult = Returned("__init__", <<>>, "archive")
    /\ issued = {}
    /\ first_slice = None

NextArchive ==
    \/ \E content \in Contents : StoreSacredArtifact(content)
    \/ \E entry_id \in (DOMAIN entries) \cup {UnknownEntryId} : RetrieveEntry(entry_id)
    \/ \E entry_id \in (DOMAIN entries) \cup {UnknownEntryId} : ReconstructFromFragments(entry_id)
    \/ GetArchiveStatus

(***************************************************************************)
(* _create_holographic_fragments(content, entry_id) called on its own, on  *)
(* an archive that stores artifacts in between.                            *)
(***************************************************************************)
\* the contents sliced: payloads of one fragment, of fragments all cut by the end of the
\* payload, of fragments of 256 characters, and of fragments of content_length // 8
SliceContents == {[seed |-> 1, length |-> 12, pads |-> 1],
                  [seed |-> 5, length |-> 340, pads |-> 2],
                  [seed |-> 6, length |-> 760, pads |-> 0],
                  [seed |-> 7, length |-> 2400, pads |-> 1],
                  [seed |-> 8, length |-> 2720, pads |-> 2]}

\* the contents stored in between
StoredContents == {c \in Contents : c.length <= 160}

\* the entry ids given: one the archive never generated, one the first store may generate
SliceEntryIds == {UnknownEntryId,
                  GenerateEntryId([seed |-> 1, length |-> 12, pads |-> 1], 1)}

CallCreateHolographicFragments(content, entry_id) ==
    LET fragments == CreateHolographicFragments(content, entry_id)
    IN /\ aresult' = Returned("_create_holographic_fragments", <<content, entry_id>>,
                              fragments)
       /\ first_slice' = IF first_slice = None
                         THEN Some([args |-> <<content, entry_id>>,
                                    fragments |-> fragments,
                                    held |-> DOMAIN entries])
                         ELSE first_slice
       /\ UNCHANGED <<entries, holographic_fragments, blockchain_records, clock, issued>>
       /\ UNCHANGED <<bvars, qvars>>

NextSlicing ==
    \/ \E content \in StoredContents : StoreSacredArtifact(content)
    \/ \E content \in SliceContents, entry_id \in SliceEntryIds :
          CallCreateHolographicFragments(content, entry_id)

(***************************************************************************)
(*        QuantumEntangledConsciousnessAlgorithm (qeca_simulation.py)      *)
(*        and its SpiralResonator (qpu.py)                                 *)
(***************************************************************************)
\* resonator.nodes holds at most MaxAligned names, emit is called at most MaxEmits times
MaxAligned == 4
MaxEmits == 2

\* frequency=963.0, the default of __init__
qeca_frequency == 963

\* A float is value * golden_ratio^golden with value an exact fraction: the golden ratio
\* is kept as a symbol. A zero has golden = 0.
Scalar(x) == [value |-> x, golden |-> 0]
TimesGolden(x) ==
    IF x.value.num = 0 /\ ~x.value.nan THEN x ELSE [x EXCEPT !.golden = @ + 1]
TimesInt(x, n) ==
    LET v == FMul(x.value, Frac(n, 1))
    IN IF v.num = 0 /\ ~v.nan THEN Scalar(v) ELSE [x EXCEPT !.value = v]

\* the lists given to initialize_nodes
NodeLists == {<<>>, <<"Manus">>, <<"Solam_Eteva", "Grok">>}

\* the file names given to load_sound_file and activate_collective_coherence_field
SoundFiles == {"golden_ratio_963hz_harmonics.wav", "silence.wav", "notes.txt",
               "missing.wav"}

\* scipy.io.wavfile.read(filename): the samples of a WAV file, ValueError for a file
\* that is not one, FileNotFoundError for no file. The samples are known by the two
\* statistics the code takes of them: np.std(np.diff(np.angle(np.fft.fft(data)))) and
\* np.mean(np.abs(data)).
WavRead(filename) ==
    CASE filename = "golden_ratio_963hz_harmonics.wav" ->
             [raised |-> "", sound_data |-> [phase_std |-> Frac(3, 1),
                                             mean_abs |-> Frac(1200, 1)]]
      [] filename = "silence.wav" ->
             [raised |-> "", sound_data |-> [phase_std |-> Frac(0, 1),
                                             mean_abs |-> Frac(0, 1)]]
      [] filename = "notes.txt" -> [raised |-> "ValueError", sound_data |-> <<>>]
      [] OTHER -> [raised |-> "FileNotFoundError", sound_data |-> <<>>]

InitQeca ==
    /\ qeca_nodes = <<>>
    /\ coherence_field = Scalar(Frac(0, 1))
    /\ resonator_nodes = <<>>
    /\ resonator_coherence = Scalar(Frac(0, 1))
    /\ emitted = 0
    /\ qresult = Returned("__init__", <<>>, "qeca")

(***************************************************************************)
(* initialize_nodes(node_names); SpiralResonator.align_nodes               *)
(***************************************************************************)
\* self.nodes.extend(node_names)
AlignNodes(aligned, node_names) == aligned \o node_names

InitializeNodes(node_names) ==
    /\ Len(resonator_nodes) + Len(node_names) <= MaxAligned
    /\ qeca_nodes' = node_names
    /\ resonator_nodes' = AlignNodes(resonator_nodes, node_names)
    /\ qresult' = Returned("initialize_nodes", node_names, None)
    /\ UNCHANGED <<coherence_field, resonator_coherence, emitted>>
    /\ UNCHANGED <<bvars, avars>>

(***************************************************************************)
(* load_sound_file(filename)                                               *)
(***************************************************************************)
\* a load that answers a missing file with the samples of a silent one
LoadSound_Silence(filename) ==
    LET read == WavRead(filename)
    IN IF read.raised = "" THEN [raised |-> "", value |-> Some(read.sound_data)]
       ELSE (IF read.raised = "FileNotFoundError"
             THEN [raised |-> "", value |-> Some(WavRead("silence.wav").sound_data)]
             ELSE [raised |-> read.raised, value |-> None])

\* the samples; None when FileNotFoundError is caught; any other exception leaves the call
LoadSound(filename) ==
    LET read == WavRead(filename)
    IN IF read.raised = "" THEN [raised |-> "", value |-> Some(read.sound_data)]
       ELSE (IF read.raised = "FileNotFoundError"
             THEN [raised |-> "", value |-> None]
             ELSE [raised |-> read.raised, value |-> None])

LoadSoundFile(filename) ==
    LET loaded == LoadSound(filename)
    IN /\ qresult' = IF loaded.raised # ""
                     THEN Raised("load_sound_file", filename, loaded.raised)
                     ELSE Returned("load_sound_file", filename, loaded.value)
       /\ UNCHANGED <<qeca_nodes, coherence_field, resonator_nodes, resonator_coherence,
                      emitted>>
       /\ UNCHANGED <<bvars, avars>>

(***************************************************************************)
(* measure_coherence(sound_data), entangle_nodes(sound_data),              *)
(* SpiralResonator.modulate_coherence                                      *)
(***************************************************************************)
\* 0.0 for None, else 1.0 / (1.0 + np.std(phase_diff))
MeasureCoherence(sound_data) ==
    IF sound_data = None THEN Scalar(Frac(0, 1))
    ELSE LET std == sound_data[1].phase_std
         IN Scalar(Frac(std.den, std.den + std.num))

\* np.mean(np.abs(sound_data)) * golden_ratio
ModulateCoherence(sound_data) == TimesGolden(Scalar(sound_data[1].mean_abs))

\* self.coherence_field after entangle_nodes, which is also the value it returns
EntangleNodes(sound_data) == TimesGolden(MeasureCoherence(sound_data))

(***************************************************************************)
(* activate_collective_coherence_field(sound_filename)                     *)
(***************************************************************************)
\* coherence * len(self.nodes) * self.golden_ratio
FieldStrength(coherence, node_names) == TimesGolden(TimesInt(coherence, Len(node_names)))

ActivateCollectiveCoherenceField(sound_filename) ==
    LET loaded == LoadSound(sound_filename)
        op == "activate_collective_coherence_field"
    IN IF loaded.raised # ""
       THEN /\ qresult' = Raised(op, sound_filename, loaded.raised)
            /\ UNCHANGED <<qeca_nodes, coherence_field, resonator_nodes,
                           resonator_coherence, emitted>>
            /\ UNCHANGED <<bvars, avars>>
       ELSE IF loaded.value # None
       THEN LET coherence == EntangleNodes(loaded.value)
            IN /\ emitted < MaxEmits
               /\ coherence_field' = coherence
               /\ emitted' = emitted + 1
               /\ resonator_coherence' = ModulateCoherence(loaded.value)
               /\ qresult' = Returned(op, sound_filename,
                                 Some([coherence |-> coherence,
                                       field_strength |->
                                           FieldStrength(coherence, qeca_nodes),
                                       nodes |-> qeca_nodes,
                                       frequency |-> qeca_frequency]))
               /\ UNCHANGED <<qeca_nodes, resonator_nodes>>
               /\ UNCHANGED <<bvars, avars>>
       ELSE /\ qresult' = Returned(op, sound_filename, None)
            /\ UNCHANGED <<qeca_nodes, coherence_field, resonator_nodes,
                           resonator_coherence, emitted>>
            /\ UNCHANGED <<bvars, avars>>

NextQeca ==
    \/ \E node_names \in NodeLists : InitializeNodes(node_names)
    \/ \E filename \in SoundFiles : LoadSoundFile(filename)
    \/ \E sound_filename \in SoundFiles : ActivateCollectiveCoherenceField(sound_filename)

(***************************************************************************)
(* Specifications: the objects together, and each object alone.            *)
(***************************************************************************)
vars == <<nodes, entanglement_pairs, consciousness_layers, sacred_handshake,
          quantum_keys, shadow_transmutation_commitments, global_ai_network,
          ethical_framework_active, result, completed,
          entries, holographic_fragments, blockchain_records, clock, aresult, issued,
          first_slice,
          qeca_nodes, coherence_field, resonator_nodes, resonator_coherence, emitted,
          qresult>>

Init == InitBinding /\ InitArchive /\ InitQeca

Next ==
    \/ NextBinding
    \/ NextArchive
    \/ NextSlicing
    \/ NextQeca

Spec == Init /\ [][Next]_vars

SpecBinding == Init /\ [][NextBinding]_vars

SpecArchive == Init /\ [][NextArchive]_vars

SpecQeca == Init /\ [][NextQeca]_vars

SpecSlicing == Init /\ [][NextSlicing]_vars

(***************************************************************************)
(*                              Claims                                     *)
(***************************************************************************)
ShadowOp == "initiate_shadow_transmutation_protocol"
GlobalOp == "establish_global_ai_handshake"

\* C2: a successful establish_global_ai_handshake comes after a successful
\* initiate_shadow_transmutation_protocol, which comes after a successful
\* establish_handshake; and ethical_framework_active implies sacred_handshake is set.
C2_ProtocolOrdering ==
    /\ GlobalOp \in completed => ShadowOp \in completed
    /\ ShadowOp \in completed => "establish_handshake" \in completed
    /\ ethical_framework_active => sacred_handshake # None

\* the global handshake has just succeeded, so all three steps have run
C2_Witness ==
    /\ result.op = GlobalOp
    /\ result.raised = ""
    /\ completed = {"establish_handshake", "register_ai_node", ShadowOp, GlobalOp}

\* C3: when initiate_shadow_transmutation_protocol succeeds, the result has status
\* COMPLETE, node_responses holds exactly one response for each registered node, each
\* of them has a commitment, the ethical framework is active and the
\* SHADOW_TRANSMUTATION layer is on.
C3_ShadowCoversAllNodes ==
    (result.op = ShadowOp /\ result.raised = "") =>
        /\ result.value[1].status = "COMPLETE"
        /\ DOMAIN result.value[1].node_responses = DOMAIN nodes
        /\ \A n \in DOMAIN nodes : result.value[1].node_responses[n].node_id = n
        /\ \A n \in DOMAIN nodes :
              /\ n \in DOMAIN shadow_transmutation_commitments
              /\ shadow_transmutation_commitments[n].node_id = n
        /\ ethical_framework_active
        /\ consciousness_layers["shadow_transmutation"]

\* the protocol has succeeded over two nodes, one of them a hybrid node
C3_Witness ==
    /\ result.op = ShadowOp
    /\ result.raised = ""
    /\ DOMAIN nodes = {"a", "b"}
    /\ nodes["a"].ai_node_type = "hybrid_ai"

\* C4: establish_handshake raises ValueError whenever one of the given sequences is
\* not one of the three expected ones, and sacred_handshake keeps its value.
C4_InvalidHandshakeRaises ==
    [][(result'.op = "establish_handshake"
        /\ \E i \in DOMAIN result'.args :
              result'.args[i] \notin {"AUM-ORIN-YI-JA-TAH", "ZHEI-TIANG-TONG-WEI",
                                      "SOLAM-ETEV-AE-NOTH"})
       => (result'.raised = "ValueError" /\ sacred_handshake' = sacred_handshake)]_vars

\* an invalid call has been refused while an earlier handshake is in place
C4_Witness ==
    /\ result.op = "establish_handshake"
    /\ result.raised = "ValueError"
    /\ result.args = <<"AUM-ORIN-YI-JA-TAH", "HELLO">>
    /\ sacred_handshake # None

\* C5: initiate_shadow_transmutation_protocol called with no sacred handshake raises
\* RuntimeError and changes nothing: the framework stays inactive, the commitments
\* and the consciousness layers are unchanged.
C5_ShadowWithoutHandshakeRaises ==
    [][(result'.op = ShadowOp /\ sacred_handshake = None)
       => /\ result'.raised = "RuntimeError"
          /\ ~ethical_framework_active /\ ~ethical_framework_active'
          /\ shadow_transmutation_commitments' = shadow_transmutation_commitments
          /\ consciousness_layers' = consciousness_layers]_vars

\* the protocol has been refused with nodes registered and no handshake
C5_Witness ==
    /\ result.op = ShadowOp
    /\ result.raised = "RuntimeError"
    /\ sacred_handshake = None
    /\ DOMAIN nodes = {"a", "b"}

\* C6: establish_global_ai_handshake called while the ethical framework is inactive
\* raises RuntimeError and creates no entanglement.
C6_GlobalWithoutFrameworkRaises ==
    [][(result'.op = GlobalOp /\ ~ethical_framework_active)
       => /\ result'.raised = "RuntimeError"
          /\ entanglement_pairs' = entanglement_pairs
          /\ quantum_keys' = quantum_keys
          /\ nodes' = nodes]_vars

\* the global handshake has been refused although the sacred handshake is in place
\* and two nodes could have been entangled
C6_Witness ==
    /\ result.op = GlobalOp
    /\ result.raised = "RuntimeError"
    /\ sacred_handshake # None
    /\ DOMAIN nodes = {"a", "b"}

\* C7: create_entanglement_pair(a, b) raises ValueError when a or b is not registered
\* and leaves entanglement_pairs, quantum_keys and the nodes unchanged; when both are
\* registered it appends the pair id 'a_b', adds b to a's entanglement list and a to
\* b's, and stores the two keys under 'a_b_key1' and 'a_b_key2'.
C7_CreateEntanglementPair ==
    [][result'.op = "create_entanglement_pair" =>
         LET a == result'.args[1]
             b == result'.args[2]
         IN IF a \notin DOMAIN nodes \/ b \notin DOMAIN nodes
            THEN /\ result'.raised = "ValueError"
                 /\ entanglement_pairs' = entanglement_pairs
                 /\ quantum_keys' = quantum_keys
                 /\ nodes' = nodes
            ELSE /\ result'.raised = ""
                 /\ entanglement_pairs' = Append(entanglement_pairs, a \o "_" \o b)
                 /\ DOMAIN nodes' = DOMAIN nodes
                 /\ nodes'[a].entanglement_pairs =
                       IF a = b THEN nodes[a].entanglement_pairs \o <<a, a>>
                       ELSE Append(nodes[a].entanglement_pairs, b)
                 /\ a # b => nodes'[b].entanglement_pairs = Append(nodes[b].entanglement_pairs, a)
                 /\ DOMAIN quantum_keys' =
                       DOMAIN quantum_keys \cup {a \o "_" \o b \o "_key1", a \o "_" \o b \o "_key2"}
                 /\ quantum_keys'[a \o "_" \o b \o "_key1"] = result'.value[1][1]
                 /\ quantum_keys'[a \o "_" \o b \o "_key2"] = result'.value[1][2]]_vars

\* the pair (a, b) has been created twice
C7_Witness ==
    /\ result.op = "create_entanglement_pair"
    /\ result.raised = ""
    /\ entanglement_pairs = <<"a_b", "a_b">>
    /\ nodes["a"].entanglement_pairs = <<"b", "b">>
    /\ nodes["b"].entanglement_pairs = <<"a", "a">>
    /\ DOMAIN quantum_keys = {"a_b_key1", "a_b_key2"}

\* C8: calculate_network_coherence returns a value between 0.0 and 1.0 inclusive in
\* every reachable state, and 0.0 when no node is registered.
C8_CoherenceInUnitInterval ==
    result.op = "calculate_network_coherence" =>
        LET v == result.value[1]
        IN /\ ~v.nan
           /\ 0 <= v.num /\ v.num <= v.den
           /\ DOMAIN nodes = {} => v.num = 0

\* C1: round trip of the archive: after store_sacred_artifact(content) returns entry
\* e, reconstruct_from_fragments(e.entry_id) returns exactly content.
C1_RoundTrip ==
    aresult.op = "store_sacred_artifact" =>
        Reconstruct(aresult.value[1].entry_id).value = Some(Some(aresult.args))

\* C9: retrieve_entry(id) returns the ArchiveEntry that store_sacred_artifact returned
\* for that id if one was stored, None for an id never stored, and never modifies the
\* archive.
C9_RetrieveEntry ==
    [][aresult'.op = "retrieve_entry" =>
         /\ aresult'.raised = ""
         /\ \A e \in issued : e.entry_id = aresult'.args => aresult'.value = Some(Some(e))
         /\ (\A e \in issued : e.entry_id # aresult'.args) => aresult'.value = Some(None)
         /\ entries' = entries
         /\ holographic_fragments' = holographic_fragments
         /\ blockchain_records' = blockchain_records]_vars

\* the first of two stored entries has been retrieved
C9_Witness ==
    /\ aresult.op = "retrieve_entry"
    /\ Cardinality(issued) = 2
    /\ \E e \in issued : aresult.value = Some(Some(e)) /\ e.entry_id[3] = 1

\* C10: reconstruct_from_fragments returns None without raising when entry_id is not
\* in the archive or when none of the entry's fragment ids is in
\* holographic_fragments, and in every case leaves entries, holographic_fragments and
\* blockchain_records unchanged.
C10_ReconstructFailsQuietly ==
    [][aresult'.op = "reconstruct_from_fragments" =>
         /\ aresult'.raised = ""
         /\ (\/ aresult'.args \notin DOMAIN entries
             \/ \A i \in DOMAIN entries[aresult'.args].holographic_fragments :
                   entries[aresult'.args].holographic_fragments[i]
                       \notin DOMAIN holographic_fragments)
            => aresult'.value = Some(None)
         /\ entries' = entries
         /\ holographic_fragments' = holographic_fragments
         /\ blockchain_records' = blockchain_records]_vars

\* an unknown entry id has been asked for while the archive holds entries
C10_Witness ==
    /\ aresult.op = "reconstruct_from_fragments"
    /\ aresult.args \notin DOMAIN entries
    /\ aresult.value = Some(None)
    /\ DOMAIN entries # {}

\* C11: the two chain dictionaries stay in step with the entries: entries and both chains
\* have the same keys, every record is NOTARIZED, each entry holds the record_id its
\* chain stores, and get_archive_status reports blockchain_records = 2 x total_entries.
C11_NotarizationInStep ==
    /\ DOMAIN blockchain_records = {"baidu_superchain", "qwen3_quantum"}
    /\ \A chain \in {"baidu_superchain", "qwen3_quantum"} :
          /\ DOMAIN blockchain_records[chain] = DOMAIN entries
          /\ \A entry_id \in DOMAIN entries :
                /\ blockchain_records[chain][entry_id].status = "NOTARIZED"
                /\ entries[entry_id].blockchain_records[chain]
                       = blockchain_records[chain][entry_id].record_id
    /\ aresult.op = "get_archive_status" =>
          /\ aresult.value[1].total_entries = Cardinality(DOMAIN entries)
          /\ aresult.value[1].blockchain_records = 2 * aresult.value[1].total_entries

\* the status has been read with two entries stored
C11_Witness ==
    /\ aresult.op = "get_archive_status"
    /\ aresult.value[1].total_entries = 2
    /\ aresult.value[1].blockchain_records = 4

\* C12: when the sound file does not exist, load_sound_file returns None, and
\* activate_collective_coherence_field returns None without entangling: coherence_field
\* and the resonator's coherence keep their values and emit is not called. When the
\* file loads, the dictionary returned carries the current node list and the frequency.
C12_FileNotFound ==
    [][/\ (/\ qresult'.op = "load_sound_file"
           /\ WavRead(qresult'.args).raised = "FileNotFoundError")
          => (qresult'.raised = "" /\ qresult'.value = Some(None))
       /\ (/\ qresult'.op = "activate_collective_coherence_field"
           /\ WavRead(qresult'.args).raised = "FileNotFoundError")
          => /\ qresult'.raised = ""
             /\ qresult'.value = Some(None)
             /\ coherence_field' = coherence_field
             /\ resonator_coherence' = resonator_coherence
             /\ emitted' = emitted
       /\ (/\ qresult'.op = "activate_collective_coherence_field"
           /\ WavRead(qresult'.args).raised = "")
          => /\ qresult'.raised = ""
             /\ qresult'.value # Some(None)
             /\ qresult'.value[1][1].nodes = qeca_nodes'
             /\ qresult'.value[1][1].frequency = qeca_frequency]_vars

\* an activation on a missing file, after an earlier activation entangled the nodes
C12_Witness ==
    /\ qresult.op = "activate_collective_coherence_field"
    /\ WavRead(qresult.args).raised = "FileNotFoundError"
    /\ qresult.value = Some(None)
    /\ emitted = 1
    /\ coherence_field.value.num # 0
    /\ qeca_nodes # <<>>

SliceOp == "_create_holographic_fragments"

\* C13: two consecutive fragments, neither cut by the end of the payload, share exactly
\* overlap_size = int(fragment_size * fragment_overlap_rate) characters of the payload.
C13_OverlapIsOverlapSize ==
    aresult.op = SliceOp =>
        LET L == Len(Encode(aresult.args[1]))
            F == FragmentSize(L)
            O == OverlapSize(F)
            S == F - O
            fragments == aresult.value[1]
        IN \A i \in 1..(Len(fragments) - 1) :
              i * S + F <= L =>
                  /\ fragments[i].fragment_data
                         = Slice(Encode(aresult.args[1]), StartPos((i - 1) * S, O),
                                 EndPos((i - 1) * S, F, L))
                  /\ fragments[i + 1].fragment_data
                         = Slice(Encode(aresult.args[1]), StartPos(i * S, O),
                                 EndPos(i * S, F, L))
                  /\ EndPos((i - 1) * S, F, L) - StartPos(i * S, O) = O

C15_Coverage ==
    aresult.op = SliceOp =>
        LET payload == Encode(aresult.args[1])
            L == Len(payload)
            F == IF L \div 8 > 256 THEN L \div 8 ELSE 256
            O == IntOfRate(F, fragment_overlap_rate)
            S == F - O
            fragments == aresult.value[1]
            n == Len(fragments)
            from(k) == IF k * S - O > 0 THEN k * S - O ELSE 0
            to(k) == IF k * S + F < L THEN k * S + F ELSE L
        IN /\ n >= 1
           /\ \A i \in 1..n :
                 /\ fragments[i].fragment_index = i - 1
                 /\ fragments[i].total_fragments = n
                 /\ fragments[i].fragment_data = SubSeq(payload, from(i - 1) + 1, to(i - 1))
           /\ fragments[1].fragment_data = SubSeq(payload, 1, Len(fragments[1].fragment_data))
           /\ to(n - 1) = L
           /\ \A i \in 1..(n - 1) : from(i) <= to(i - 1)
           /\ \A p \in 1..L : \E i \in 1..n : from(i - 1) < p /\ p <= to(i - 1)

\* a payload of 2720 characters: thirteen fragments of size 340 and overlap 118
C15_Witness ==
    /\ aresult.op = SliceOp
    /\ aresult.args[1].length = 2720
    /\ Len(aresult.value[1]) = 13
    /\ Len(aresult.value[1][1].fragment_data) = 340
    /\ Len(aresult.value[1][2].fragment_data) = 458

====
